---- MODULE Spec2Model ----
(***************************************************************************)
(* Model of the categorization pipeline of finanalyser-mcp:                *)
(* FinancialAnalyzer.categorize_transactions_with_llm,                     *)
(* categorize_transactions_streaming, _categorize_batch,                   *)
(* _fallback_categorize, generate_incremental_insights and                  *)
(* generate_insights (src/finanalyser_mcp/server.py), the last as the      *)
(* endpoints of src/web_api.py call it; generate_suggestions_with_llm      *)
(* with its fallback, parse_json_file, and the analyzer instances that     *)
(* requests and configure_llm_endpoint of src/web_api.py construct.        *)
(*                                                                         *)
(* Encodings.  Amounts are integers.  Confidences are integers in          *)
(* thousandths (0.7 is 700); the two float sums that fall one ulp short,   *)
(* 0.7 + 0.1 = 0.7999999999999999 and 0.7 + 0.2 = 0.8999999999999999, are  *)
(* written 799 and 899.  A Python value that may be None or of another     *)
(* type is a record [k, n, s] (kind, number, string).  Transaction objects *)
(* live in a heap indexed by object identity, lists hold identities.       *)
(***************************************************************************)
EXTENDS Integers, Sequences, FiniteSets, TLC

\* ------------------------------------------------------------------------
\* Python values
\* ------------------------------------------------------------------------
None == [k |-> "none", n |-> 0, s |-> ""]

Num(x) == [k |-> "num", n |-> x, s |-> ""]

Str(x) == [k |-> "str", n |-> 0, s |-> x]

IsNone(v) == v.k = "none"

\* Python truthiness of a value: None, 0 and "" are false
Truthy(v) ==
  \/ v.k = "num" /\ v.n # 0
  \/ v.k = "str" /\ v.s # ""

\* ------------------------------------------------------------------------
\* Strings
\* ------------------------------------------------------------------------
UpperCase == "ABCDEFGHIJKLMNOPQRSTUVWXYZ"

LowerCase == "abcdefghijklmnopqrstuvwxyz"

LowerChar(c) ==
  IF \E i \in 1..26 : SubSeq(UpperCase, i, i) = c
  THEN LET i == CHOOSE j \in 1..26 : SubSeq(UpperCase, j, j) = c
       IN  SubSeq(LowerCase, i, i)
  ELSE c

RECURSIVE Lower(_)
\* str.lower()
Lower(s) ==
  IF Len(s) = 0 THEN ""
  ELSE LowerChar(SubSeq(s, 1, 1)) \o Lower(SubSeq(s, 2, Len(s)))

RECURSIVE LStrip(_)
LStrip(s) ==
  IF Len(s) > 0 /\ SubSeq(s, 1, 1) = " " THEN LStrip(SubSeq(s, 2, Len(s))) ELSE s

RECURSIVE RStrip(_)
RStrip(s) ==
  IF Len(s) > 0 /\ SubSeq(s, Len(s), Len(s)) = " "
  THEN RStrip(SubSeq(s, 1, Len(s) - 1)) ELSE s

\* str.strip()
Strip(s) == RStrip(LStrip(s))

\* Python's  kw in d  on strings: kw occurs as a substring of d
Contains(kw, d) ==
  \E i \in 1..(Len(d) - Len(kw) + 1) : SubSeq(d, i, i + Len(kw) - 1) = kw

\* any(keyword in description for keyword in kws)
AnyIn(kws, d) == \E i \in 1..Len(kws) : Contains(kws[i], d)

InList(x, lst) == \E i \in 1..Len(lst) : lst[i] = x

Min(a, b) == IF a < b THEN a ELSE b

\* ------------------------------------------------------------------------
\* Fallback Classifier: keyword tables
\* ------------------------------------------------------------------------
priority_income_keywords ==
  <<"reimbursement", "refund", "return", "cashback", "deposit", "credit", "dividend", "interest", "bonus", "gift", "salary", "wage", "income">>

other_income_keywords ==
  <<"payroll", "paycheck", "freelance", "contract", "consulting", "business income", "revenue", "sales", "tip">>

expense_type_keywords ==
  <<"purchase", "payment", "withdrawal", "debit", "bill", "fee", "charge", "business dinner", "business lunch">>

income_keywords ==
  <<
    [category |-> "Salary",
     keywords |-> <<"salary", "wage", "payroll", "paycheck">>],
    [category |-> "Freelance",
     keywords |-> <<"freelance", "contract", "consulting">>],
    [category |-> "Business Income",
     keywords |-> <<"business income", "revenue", "sales">>],
    [category |-> "Investment Returns",
     keywords |-> <<"dividend", "interest", "capital gains">>],
    [category |-> "Refunds",
     keywords |-> <<"refund", "return", "cashback", "reimbursement">>],
    [category |-> "Gifts",
     keywords |-> <<"gift", "bonus", "tip">>]
  >>

expense_keywords ==
  <<
    [category |-> "Food Delivery & Takeout",
     keywords |-> <<"delivery", "order", "takeout", "takeaway", "swiggy", "zomato", "uber eats", "delivered">>],
    [category |-> "Restaurants & Dining",
     keywords |-> <<"lunch", "dinner", "meal", "restaurant", "dining", "dine", "brunch">>],
    [category |-> "Cafes & Coffee Shops",
     keywords |-> <<"coffee", "cafe", "tea", "breakfast", "espresso", "latte", "cappuccino">>],
    [category |-> "Groceries & Supermarkets",
     keywords |-> <<"grocery", "supermarket", "vegetables", "fruits", "market", "bazaar", "vegetables", "food hall">>],
    [category |-> "Fast Food & Quick Service",
     keywords |-> <<"drive", "counter", "quick", "fast food", "sandwich", "burger", "pizza", "taco", "bell", "kfc", "mcdonalds">>],
    [category |-> "Transportation",
     keywords |-> <<"taxi", "uber", "ola", "bus", "metro", "train", "fuel", "petrol", "gas", "parking", "ride">>],
    [category |-> "Travel & Accommodation",
     keywords |-> <<"hotel", "flight", "travel", "booking", "accommodation", "resort", "airline", "airport">>],
    [category |-> "Shopping & Retail",
     keywords |-> <<"shopping", "store", "retail", "mall", "purchase", "buy", "clothes", "electronics">>],
    [category |-> "Entertainment & Recreation",
     keywords |-> <<"movie", "cinema", "netflix", "spotify", "gaming", "theater", "concert", "entertainment">>],
    [category |-> "Healthcare & Medical",
     keywords |-> <<"hospital", "doctor", "pharmacy", "medical", "health", "clinic", "medicine", "treatment">>],
    [category |-> "Utilities & Bills",
     keywords |-> <<"electric", "electricity", "water", "internet", "phone", "cable", "utility", "bill">>],
    [category |-> "Housing & Rent",
     keywords |-> <<"rent", "mortgage", "housing", "apartment", "house payment">>],
    [category |-> "Professional Services",
     keywords |-> <<"subscription", "software", "service", "professional", "office", "adobe", "microsoft">>],
    [category |-> "Fitness & Wellness",
     keywords |-> <<"gym", "fitness", "workout", "yoga", "health club", "personal training", "membership">>],
    [category |-> "Personal Care & Beauty",
     keywords |-> <<"salon", "spa", "beauty", "haircut", "cosmetics", "personal care">>],
    [category |-> "Education & Learning",
     keywords |-> <<"course", "education", "learning", "book", "training", "class">>],
    [category |-> "Banking & Fees",
     keywords |-> <<"fee", "charge", "bank", "atm", "transfer", "withdrawal fee">>],
    [category |-> "Insurance",
     keywords |-> <<"insurance", "premium", "policy">>],
    [category |-> "Investments",
     keywords |-> <<"investment", "mutual fund", "sip", "stock", "dividend">>]
  >>

activity_keywords ==
  <<"lunch", "dinner", "breakfast", "coffee", "meal", "order", "delivery">>

business_keywords ==
  <<"restaurant", "cafe", "hotel", "gym", "hospital", "pharmacy">>

\* ------------------------------------------------------------------------
\* Fallback Classifier: _fallback_categorize
\* ------------------------------------------------------------------------
\* the float sum  c + 0.1 * k  in thousandths (see the encoding note above)
FloatAdd(c, k) ==
  IF c = 700 /\ k \in {1, 2} THEN c + 100 * k - 1
  ELSE IF c \in {799, 899} /\ k = 1 THEN c + 100
  ELSE c + 100 * k

\* FallbackType looking at the expense keywords before the income keywords
FallbackType_expense_first(description, amount) ==
  IF AnyIn(expense_type_keywords, description) THEN "expense"
  ELSE IF AnyIn(priority_income_keywords, description) THEN "income"
  ELSE IF AnyIn(other_income_keywords, description) THEN "income"
  ELSE IF amount > 0 THEN "income" ELSE "expense"

\* FallbackType taking an amount of 0 for income
FallbackType_zero_income(description, amount) ==
  IF AnyIn(priority_income_keywords, description) THEN "income"
  ELSE IF AnyIn(other_income_keywords, description) THEN "income"
  ELSE IF AnyIn(expense_type_keywords, description) THEN "expense"
  ELSE IF amount >= 0 THEN "income" ELSE "expense"

\* type assigned from the lower-cased description and the amount
FallbackType(description, amount) ==
  IF AnyIn(priority_income_keywords, description) THEN "income"
  ELSE IF AnyIn(other_income_keywords, description) THEN "income"
  ELSE IF AnyIn(expense_type_keywords, description) THEN "expense"
  ELSE IF Contains("expense", description) /\ Contains("reimbursement", description)
       THEN "income"
  ELSE IF amount > 0 THEN "income" ELSE "expense"

RECURSIVE IncomeScan(_, _)
\* the income loop: the first category with a matching keyword, at 0.7
IncomeScan(description, c) ==
  IF c > Len(income_keywords)
  THEN [category |-> "Other Income", confidence |-> 300]
  ELSE IF AnyIn(income_keywords[c].keywords, description)
       THEN [category |-> income_keywords[c].category, confidence |-> 700]
       ELSE IncomeScan(description, c + 1)

\* len(matching_keywords): list entries of the category found in the description
MatchingCount(keywords, description) ==
  Cardinality({i \in 1..Len(keywords) : Contains(keywords[i], description)})

\* 0.7, raised to 0.85 for an activity keyword and to 0.9 for a business keyword
BaseConfidence(keyword) ==
  IF InList(keyword, business_keywords) THEN 900
  ELSE IF InList(keyword, activity_keywords) THEN 850
  ELSE 700

\* if len(matching_keywords) > 1: min(0.95, confidence + 0.1 * (len - 1))
MultiBoost(confidence, m) ==
  IF m > 1 THEN Min(950, FloatAdd(confidence, m - 1)) ELSE confidence

\* if keyword == description.lower().strip(): min(0.95, confidence + 0.1)
ExactBoost(confidence, keyword, description) ==
  IF keyword = Strip(Lower(description))
  THEN Min(950, FloatAdd(confidence, 1))
  ELSE confidence

\* confidence of one matching (category, keyword) pair
KeywordConfidence(keywords, keyword, description) ==
  ExactBoost(MultiBoost(BaseConfidence(keyword), MatchingCount(keywords, description)),
             keyword, description)

\* the inner loop over one category's keywords: the highest confidence of a
\* matching keyword of category c (0 when none matches)
CategoryBest(description, c) ==
  LET keywords == expense_keywords[c].keywords
      confs == {KeywordConfidence(keywords, keywords[k], description) :
                  k \in {j \in 1..Len(keywords) : Contains(keywords[j], description)}}
  IN  IF confs = {} THEN 0 ELSE CHOOSE x \in confs : \A y \in confs : y <= x

RECURSIVE ExpenseScan(_, _, _)
\* the outer loop over the categories in table order: best_match and
\* best_confidence are replaced only by a strictly higher confidence
ExpenseScan(description, c, best) ==
  IF c > Len(expense_keywords) THEN best
  ELSE LET confidence == CategoryBest(description, c)
       IN  IF confidence > best.confidence
           THEN ExpenseScan(description, c + 1,
                            [category |-> expense_keywords[c].category,
                             confidence |-> confidence])
           ELSE ExpenseScan(description, c + 1, best)

\* (type, category, confidence) that _fallback_categorize computes from a
\* description and an amount
FallbackLabels(desc, amount) ==
  LET description == Lower(desc)
      type == FallbackType(description, amount)
      best == ExpenseScan(description, 1, [category |-> "", confidence |-> 0])
      cc == IF type = "income" THEN IncomeScan(description, 1)
            ELSE IF best.category # "" THEN best
            ELSE [category |-> "Other", confidence |-> 300]
  IN  [type |-> Str(type), category |-> Str(cc.category), confidence |-> Num(cc.confidence)]

\* ------------------------------------------------------------------------
\* Bounds and inputs
\* ------------------------------------------------------------------------
\* batch_size = 20 in each of the three loops
batch_size == 20

\* longest input list
MaxN == 41

\* input lengths: empty, short, one full batch, one over, three batches
Lens == {0, 1, 2, batch_size, batch_size + 1, MaxN}

\* rows a parsed file is made of; the dates are not in ascending order
Pool ==
  << [date |-> "2024-03-05", description |-> "Swiggy Dinner Order", sign |-> -1],
     [date |-> "2024-01-15", description |-> "Salary ACME", sign |-> 1],
     [date |-> "2024-02-10", description |-> "xyz", sign |-> -1],
     [date |-> "2024-01-15", description |-> "Expense Reimbursement", sign |-> -1] >>

\* in a "repeat" input, positions p and p + DupPeriod hold identical rows
DupPeriod == Len(Pool)

Patterns == {"distinct", "repeat"}

\* Transaction(date, description, amount): the labels default to None
Transaction(date, description, amount) ==
  [date |-> date, description |-> description, amount |-> amount,
   category |-> None, type |-> None, confidence |-> None]

\* the j-th row (1-based) of a parsed input: every row differs from every
\* other ("distinct"), or the rows repeat with period DupPeriod ("repeat")
ParsedRow(pattern, j) ==
  LET row == Pool[((j - 1) % Len(Pool)) + 1]
  IN  Transaction(row.date, row.description,
                  IF pattern = "distinct" THEN row.sign * j ELSE row.sign * 10)

\* ------------------------------------------------------------------------
\* Backend responses
\* ------------------------------------------------------------------------
\* one object of the parsed JSON array; has_* tells whether the key is present
Entry(id, type, category, confidence) ==
  [has_id |-> TRUE, id |-> id,
   has_type |-> TRUE, type |-> type,
   has_category |-> TRUE, category |-> category,
   has_confidence |-> TRUE, confidence |-> confidence]

\* a well-formed answer for id j; the confidence differs for every id
GoodEntry(j) ==
  Entry(j, Str(IF j % 2 = 0 THEN "expense" ELSE "income"),
        Str(IF j % 2 = 0 THEN "Shopping & Retail" ELSE "Freelance"),
        Num(500 + 10 * j))

\* what the backend does with one batch: the call raises, the content is not
\* JSON, or the content parses to a list of entries of the given shape; p is
\* the id (or list position) the shape's anomaly sits at
Outcomes ==
  [kind : {"raise", "nonjson", "full", "reversed", "null_type", "null_category",
           "null_confidence", "no_confidence", "no_type", "str_confidence",
           "out_of_range"}, p : {0}]
  \cup [kind : {"no_id"}, p : {1}]
  \cup [kind : {"missing"}, p : {0, DupPeriod}]

\* entry for id j of a response of the given shape
ShapedEntry(o, j) ==
  LET g == GoodEntry(j)
  IN  IF j # o.p THEN g
      ELSE CASE o.kind = "null_type" -> [g EXCEPT !.type = None]
             [] o.kind = "null_category" -> [g EXCEPT !.category = None]
             [] o.kind = "null_confidence" -> [g EXCEPT !.confidence = None]
             [] o.kind = "no_confidence" -> [g EXCEPT !.has_confidence = FALSE]
             [] o.kind = "no_type" -> [g EXCEPT !.has_type = FALSE]
             [] o.kind = "no_id" -> [g EXCEPT !.has_id = FALSE]
             [] o.kind = "str_confidence" -> [g EXCEPT !.confidence = Str("high")]
             [] o.kind = "out_of_range" -> [g EXCEPT !.confidence = Num(1500)]
             [] OTHER -> g

\* json.loads(response.choices[0].message.content) for a batch of len rows
Categorizations(o, len) ==
  LET ids == IF o.kind = "missing" /\ o.p < len
             THEN [j \in 1..(len - 1) |-> IF j - 1 < o.p THEN j - 1 ELSE j]
             ELSE IF o.kind = "reversed" THEN [j \in 1..len |-> len - j]
             ELSE [j \in 1..len |-> j - 1]
  IN  [j \in 1..Len(ids) |-> ShapedEntry(o, ids[j])]

\* the call itself raised, or json.loads raised
CallFailed(o) == o.kind \in {"raise", "nonjson"}

\* ------------------------------------------------------------------------
\* JSON documents: parse_json_file
\* ------------------------------------------------------------------------
\* elements of one array
MaxElems == 2

\* one element of the array: a JSON object with or without the three keys
\* (amount a number, a string or null), or a value that is no object
JsonObject(has_date, has_description, has_amount, amount) ==
  [kind |-> "object",
   has_date |-> has_date, date |-> IF has_date THEN "2024-01-15" ELSE "",
   has_description |-> has_description,
   description |-> IF has_description THEN "Salary ACME" ELSE "",
   has_amount |-> has_amount, amount |-> amount]

JsonElements ==
  {JsonObject(TRUE, TRUE, TRUE, Num(-5)),
   JsonObject(FALSE, TRUE, TRUE, Str("12")),
   JsonObject(TRUE, FALSE, TRUE, Str(" 7 ")),
   JsonObject(FALSE, FALSE, FALSE, None),
   JsonObject(TRUE, TRUE, TRUE, Str("abc")),
   JsonObject(TRUE, TRUE, TRUE, None),
   [JsonObject(FALSE, FALSE, FALSE, None) EXCEPT !.kind = "string"]}

JsonArrays == UNION {[1..n -> JsonElements] : n \in 0..MaxElems}

\* what json.load returns: an array; an object with a 'transactions' key
\* whose value is an array, an object with n keys, a string of n characters,
\* null or a number; an object without that key; any other value
JsonDocuments ==
  [top : {"array"}, value : {"array"}, items : JsonArrays, n : {0}]
  \cup [top : {"object"}, value : {"array"}, items : JsonArrays, n : {0}]
  \cup [top : {"object"}, value : {"object", "string"}, items : {<<>>}, n : {0, 1}]
  \cup [top : {"object"}, value : {"null", "number", "absent"}, items : {<<>>}, n : {0}]
  \cup [top : {"number", "string", "null"}, value : {"absent"}, items : {<<>>}, n : {0}]

\* no file is parsed in this run
NoFile == [top |-> "null", value |-> "absent", items |-> <<>>, n |-> 0]

\* the string reads as a whole number for float(), blanks around it ignored
IsNumeral(str) ==
  LET t == Strip(str)
      body == IF t # "" /\ SubSeq(t, 1, 1) = "-" THEN SubSeq(t, 2, Len(t)) ELSE t
  IN  body # "" /\ \A k \in 1..Len(body) : SubSeq(body, k, k) \in
        {"0", "1", "2", "3", "4", "5", "6", "7", "8", "9"}

RECURSIVE NumeralValue(_)
NumeralValue(body) ==
  IF body = "" THEN 0
  ELSE 10 * NumeralValue(SubSeq(body, 1, Len(body) - 1))
         + (CHOOSE q \in 0..9 :
              SubSeq("0123456789", q + 1, q + 1) = SubSeq(body, Len(body), Len(body)))

\* float(x) raises: x is None, or a string that is no number
FloatRaises(v) ==
  \/ v.k = "none"
  \/ v.k = "str" /\ ~IsNumeral(v.s)

\* float(x)
FloatOf(v) ==
  IF v.k = "num" THEN v.n
  ELSE LET t == Strip(v.s)
       IN  IF SubSeq(t, 1, 1) = "-" THEN 0 - NumeralValue(SubSeq(t, 2, Len(t)))
           ELSE NumeralValue(t)

\* the loop body raises for this element: it has no .get, or float() raises
ElementRaises(e) ==
  \/ e.kind # "object"
  \/ e.has_amount /\ FloatRaises(e.amount)

\* Transaction(date=tx_data.get('date', ''), ...) for an element
ElementTransaction(e) ==
  Transaction(e.date, e.description, IF e.has_amount THEN FloatOf(e.amount) ELSE 0)

\* what the for loop iterates over: the items of an array, the n keys of an
\* object, the n characters of a string (keys and characters are strings)
IteratedItems(d) ==
  IF d.value = "array" THEN d.items
  ELSE [j \in 1..d.n |-> [JsonObject(FALSE, FALSE, FALSE, None) EXCEPT !.kind = "string"]]

\* parse_json_file raises: the structure is refused, the value of
\* 'transactions' cannot be iterated, or the loop body raises for an element
ParseRaises(d) ==
  \/ d.top \notin {"array", "object"}
  \/ d.top = "object" /\ d.value = "absent"
  \/ d.value \in {"null", "number"}
  \/ \E j \in 1..Len(IteratedItems(d)) : ElementRaises(IteratedItems(d)[j])

\* ------------------------------------------------------------------------
\* State
\* ------------------------------------------------------------------------
VARIABLES
  heap,           \* Transaction objects by identity (1..Len(heap))
  transactions,   \* the caller's list: identities of the parsed objects
  input,          \* the parsed rows as values, as they were before any call
  openai_client,  \* self.openai_client is not None
  mode,           \* "none", "llm" (categorize_transactions_with_llm), "stream"
                  \* or "parse"
  pc,             \* "start", "loop", "awaiting", "yielded", "returned", "raised",
                  \* "analysed", "failed", "suggested", "suggestions_raised",
                  \* "parsed", "parse_raised", "request"
  i,              \* the loop variable of range(0, len(transactions), batch_size)
  categorized,    \* categorized_transactions / all_categorized / all_processed
  events,         \* the events the generator has yielded, in order
  calls,          \* backend calls started
  outstanding,    \* backend calls started and not yet answered
  outcomes,       \* what the backend did with each call, in order
  fallback_table, \* FallbackLabels tabulated for the rows of the inputs; never changes
  final_insights, \* what generate_insights returned to the endpoint
  suggestions,    \* ids of what generate_suggestions_with_llm returned
  file_data,      \* json.load(file) of the uploaded file, where a run parses one
  analyzer,       \* the module-level analyzer of src/web_api.py: an instance identity
  instances,      \* the FinancialAnalyzer objects constructed so far, by identity
  current_analyzer, \* the instance the request bound at its start (self in the methods)
  batch_analyzers \* per batch started: the instance that classified it

vars == <<heap, transactions, input, openai_client, mode, pc, i, categorized,
          events, calls, outstanding, outcomes, fallback_table, final_insights,
          suggestions, file_data, analyzer, instances, current_analyzer,
          batch_analyzers>>

\* (description, amount) of every row an input can hold
InputKeys ==
  {<<ParsedRow(pattern, j).description, ParsedRow(pattern, j).amount>> :
     pattern \in Patterns, j \in 1..MaxN}

\* ------------------------------------------------------------------------
\* _categorize_batch
\* ------------------------------------------------------------------------
Range(f) == {f[j] : j \in DOMAIN f}

\* fallback_categorize leaving a transaction that has a category as it is
fallback_categorize_keep(tx) ==
  LET l == fallback_table[<<tx.description, tx.amount>>]
  IN  IF IsNone(tx.category)
      THEN [tx EXCEPT !.type = l.type, !.category = l.category, !.confidence = l.confidence]
      ELSE tx

\* _fallback_categorize(transaction): writes the labels into the object it is
\* given and returns that same object
fallback_categorize(tx) ==
  LET l == fallback_table[<<tx.description, tx.amount>>]
  IN  [tx EXCEPT !.type = l.type, !.category = l.category, !.confidence = l.confidence]

\* FallbackAll that labels nothing
FallbackAll_unlabelled(h, ids) ==
  h

\* [self._fallback_categorize(tx) for tx in ids]: the heap after the calls
FallbackAll(h, ids) ==
  [o \in DOMAIN h |-> IF o \in Range(ids) THEN fallback_categorize(h[o]) ELSE h[o]]

\* transactions.index(tx), 0-based: the first position of the batch holding a
\* transaction equal to the one at position p (dataclass equality on all fields)
Index(h, batch, p) ==
  (CHOOSE j \in 1..Len(batch) :
      /\ h[batch[j]] = h[batch[p + 1]]
      /\ \A q \in 1..(j - 1) : h[batch[q]] # h[batch[p + 1]]) - 1

\* next((cat for cat in categorizations if cat["id"] == tx_index), None):
\* list position of the first entry with that id, 0 for None; the scan reads
\* cat["id"] of every entry up to the match
FirstMatch(categorizations, tx_index) ==
  IF \E j \in 1..Len(categorizations) :
        categorizations[j].has_id /\ categorizations[j].id = tx_index
  THEN CHOOSE j \in 1..Len(categorizations) :
        /\ categorizations[j].has_id /\ categorizations[j].id = tx_index
        /\ \A q \in 1..(j - 1) :
              ~(categorizations[q].has_id /\ categorizations[q].id = tx_index)
  ELSE 0

\* KeyError of the scan: an entry without "id" is read before a match is found
ScanRaises(categorizations, tx_index) ==
  LET m == FirstMatch(categorizations, tx_index)
  IN  \E j \in 1..Len(categorizations) :
        ~categorizations[j].has_id /\ (m = 0 \/ j < m)

\* the loop body for the transaction at batch position p raises: the scan
\* does, or the matched entry has no "type" or no "category" key
TxRaises(h, batch, categorizations, p) ==
  LET tx_index == Index(h, batch, p)
      m == FirstMatch(categorizations, tx_index)
  IN  \/ ScanRaises(categorizations, tx_index)
      \/ m # 0 /\ (~categorizations[m].has_type \/ ~categorizations[m].has_category)

\* categorized_tx of the loop body for batch position p: a new Transaction
\* labelled from the matched entry, or by the Fallback Classifier
CategorizedTx(h, batch, categorizations, p) ==
  LET tx == h[batch[p + 1]]
      fresh == Transaction(tx.date, tx.description, tx.amount)
      m == FirstMatch(categorizations, Index(h, batch, p))
  IN  IF m # 0
      THEN [fresh EXCEPT !.type = categorizations[m].type,
                         !.category = categorizations[m].category,
                         !.confidence = IF categorizations[m].has_confidence
                                        THEN categorizations[m].confidence
                                        ELSE Num(500)]
      ELSE fallback_categorize(fresh)

\* the try block of _categorize_batch raises
BatchRaises(h, batch, o) ==
  \/ CallFailed(o)
  \/ \E p \in 0..(Len(batch) - 1) :
        TxRaises(h, batch, Categorizations(o, Len(batch)), p)

\* categorize_batch returning its results in reverse order
categorize_batch_reversed(h, batch, o) ==
  IF BatchRaises(h, batch, o)
  THEN [heap |-> FallbackAll(h, batch),
        result |-> [p \in 1..Len(batch) |-> batch[Len(batch) + 1 - p]]]
  ELSE [heap |-> h \o [p \in 1..Len(batch) |->
                         CategorizedTx(h, batch, Categorizations(o, Len(batch)), p - 1)],
        result |-> [p \in 1..Len(batch) |-> Len(h) + Len(batch) + 1 - p]]

\* categorize_batch whose except branch relabels every transaction there is,
\* not only the batch's
categorize_batch_fallback_all(h, batch, o) ==
  IF BatchRaises(h, batch, o)
  THEN [heap |-> FallbackAll(h, [id \in 1..Len(h) |-> id]), result |-> batch]
  ELSE [heap |-> h \o [p \in 1..Len(batch) |->
                         CategorizedTx(h, batch, Categorizations(o, Len(batch)), p - 1)],
        result |-> [p \in 1..Len(batch) |-> Len(h) + p]]

\* _categorize_batch(batch) with backend outcome o: the heap afterwards and
\* the returned list.  On success the list holds new objects; in the except
\* branch it holds the batch's own objects, relabelled in place.
categorize_batch(h, batch, o) ==
  IF BatchRaises(h, batch, o)
  THEN [heap |-> FallbackAll(h, batch), result |-> batch]
  ELSE [heap |-> h \o [p \in 1..Len(batch) |->
                         CategorizedTx(h, batch, Categorizations(o, Len(batch)), p - 1)],
        result |-> [p \in 1..Len(batch) |-> Len(h) + p]]

\* ------------------------------------------------------------------------
\* generate_incremental_insights
\* ------------------------------------------------------------------------
RECURSIVE SumSeq(_)
SumSeq(q) == IF q = <<>> THEN 0 ELSE q[1] + SumSeq(Tail(q))

Abs(x) == IF x < 0 THEN -x ELSE x

\* [f(tx) for tx in txs if tx.type == ty]
OfType(txs, ty) == SelectSeq(txs, LAMBDA tx : tx.type = Str(ty))

Amounts(txs) == [j \in 1..Len(txs) |-> txs[j].amount]

AbsAmounts(txs) == [j \in 1..Len(txs) |-> Abs(txs[j].amount)]

\* sum(confidences) or  tx.confidence < 0.6  raises TypeError: a confidence
\* that is None or not a number
InsightsRaise(txs) ==
  \E j \in 1..Len(txs) : txs[j].confidence.k # "num"

\* the dictionary returned for the transaction values txs (date_range, the
\* confidence average and the two top-5 lists are not carried)
generate_incremental_insights(txs) ==
  IF txs = <<>>
  THEN [total_transactions |-> 0]
  ELSE LET income == OfType(txs, "income")
           others == SelectSeq(txs, LAMBDA tx : tx.type # Str("income"))
           total_income == SumSeq(Amounts(income))
           total_expenses == Abs(SumSeq(Amounts(OfType(txs, "expense"))))
       IN  [total_transactions |-> Len(txs),
            total_income |-> total_income,
            total_expenses |-> total_expenses,
            net_cash_flow |-> total_income - total_expenses,
            income_breakdown |->
              [c \in {income[j].category : j \in 1..Len(income)} |->
                 SumSeq(Amounts(SelectSeq(income, LAMBDA tx : tx.category = c)))],
            expense_breakdown |->
              [c \in {others[j].category : j \in 1..Len(others)} |->
                 SumSeq(AbsAmounts(SelectSeq(others, LAMBDA tx : tx.category = c)))],
            low_confidence_count |->
              Cardinality({j \in 1..Len(txs) : txs[j].confidence.n < 600})]

\* ------------------------------------------------------------------------
\* generate_insights
\* ------------------------------------------------------------------------
\* the characters of a date in code-point order
DateChars == "-/0123456789"

\* position of a character in DateChars
Ord(c) == CHOOSE k \in 1..Len(DateChars) : SubSeq(DateChars, k, k) = c

RECURSIVE StrLess(_, _)
\* a < b on Python strings: by code point, a proper prefix is smaller
StrLess(a, b) ==
  IF b = "" THEN FALSE
  ELSE IF a = "" THEN TRUE
  ELSE LET x == Ord(SubSeq(a, 1, 1))
           y == Ord(SubSeq(b, 1, 1))
       IN  IF x # y THEN x < y
           ELSE StrLess(SubSeq(a, 2, Len(a)), SubSeq(b, 2, Len(b)))

RECURSIVE SortedDates(_)
\* the dates of a set in ascending order
SortedDates(dates) ==
  IF dates = {} THEN <<>>
  ELSE LET least == CHOOSE d \in dates : \A e \in dates \ {d} : StrLess(d, e)
       IN  <<least>> \o SortedDates(dates \ {least})

RECURSIVE ConcatByDate(_, _, _)
ConcatByDate(h, ids, dates) ==
  IF dates = <<>> THEN <<>>
  ELSE SelectSeq(ids, LAMBDA id : h[id].date = dates[1])
         \o ConcatByDate(h, ids, Tail(dates))

\* the list after  transactions.sort(key=lambda x: x.date) : ascending dates,
\* equal dates in the order they had (the sort is stable)
SortByDate(h, ids) ==
  ConcatByDate(h, ids, SortedDates({h[ids[j]].date : j \in 1..Len(ids)}))

\* category = transaction.category or "Uncategorized"
CategoryOf(tx) == IF Truthy(tx.category) THEN tx.category.s ELSE "Uncategorized"

\* sum(confidences), or  transaction.confidence < 0.5  on a true value, raises
\* TypeError: a confidence that is a string
FullInsightsRaise(txs) ==
  \E j \in 1..Len(txs) : txs[j].confidence.k = "str"

\* Breakdown adding up the signed amounts
Breakdown_signed(txs) ==
  [c \in {CategoryOf(txs[j]) : j \in 1..Len(txs)} |->
     LET rows == SelectSeq(txs, LAMBDA tx : CategoryOf(tx) = c)
     IN  [amount |-> SumSeq(Amounts(rows)), count |-> Len(rows)]]

\* rows of one side (income, or everything else) by category: amount and count
Breakdown(txs) ==
  [c \in {CategoryOf(txs[j]) : j \in 1..Len(txs)} |->
     LET rows == SelectSeq(txs, LAMBDA tx : CategoryOf(tx) = c)
     IN  [amount |-> SumSeq(AbsAmounts(rows)), count |-> Len(rows)]]

Digits == "0123456789"

IsDigits(str) ==
  \A k \in 1..Len(str) : \E q \in 1..Len(Digits) : SubSeq(Digits, q, q) = SubSeq(str, k, k)

RECURSIVE ToInt(_)
\* int(str) of a string of digits
ToInt(str) ==
  IF str = "" THEN 0
  ELSE 10 * ToInt(SubSeq(str, 1, Len(str) - 1))
         + ((CHOOSE q \in 1..Len(Digits) :
               SubSeq(Digits, q, q) = SubSeq(str, Len(str), Len(str))) - 1)

DaysInMonth(year, month) ==
  IF month = 2
  THEN (IF year % 4 = 0 /\ (year % 100 # 0 \/ year % 400 = 0) THEN 29 ELSE 28)
  ELSE IF month \in {4, 6, 9, 11} THEN 30 ELSE 31

\* the month lengths (1 or 2 digits) under which the date reads as
\* year-month-day for strptime(date, '%Y-%m-%d')
MonthLens(date) ==
  {mlen \in 1..2 :
     LET dlen == Len(date) - 6 - mlen
         year == SubSeq(date, 1, 4)
         month == SubSeq(date, 6, 5 + mlen)
         day == SubSeq(date, 7 + mlen, Len(date))
     IN  /\ dlen \in 1..2
         /\ IsDigits(year) /\ IsDigits(month) /\ IsDigits(day)
         /\ SubSeq(date, 5, 5) = "-" /\ SubSeq(date, 6 + mlen, 6 + mlen) = "-"
         /\ ToInt(year) >= 1
         /\ ToInt(month) \in 1..12
         /\ ToInt(day) \in 1..DaysInMonth(ToInt(year), ToInt(month))}

\* month_year: strftime('%Y-%m') of the parsed date; when the date does not
\* parse, its first 7 characters, or "Unknown" when it has fewer
MonthYear(date) ==
  IF MonthLens(date) # {}
  THEN LET mlen == CHOOSE x \in MonthLens(date) : TRUE
           month == SubSeq(date, 6, 5 + mlen)
       IN  SubSeq(date, 1, 5) \o (IF mlen = 1 THEN "0" \o month ELSE month)
  ELSE IF Len(date) >= 7 THEN SubSeq(date, 1, 7) ELSE "Unknown"

\* monthly_analysis: income, expenses and net of every month that occurs
MonthlyAnalysis(txs) ==
  LET month == [d \in {txs[j].date : j \in 1..Len(txs)} |-> MonthYear(d)]
  IN  [m \in {month[d] : d \in DOMAIN month} |->
         LET rows == SelectSeq(txs, LAMBDA tx : month[tx.date] = m)
             income == SumSeq(AbsAmounts(SelectSeq(rows, LAMBDA tx : tx.type = Str("income"))))
             expenses == SumSeq(AbsAmounts(SelectSeq(rows, LAMBDA tx : tx.type # Str("income"))))
         IN  [income |-> income, expenses |-> expenses, net |-> income - expenses]]

\* an entry of top_expenses / top_income
TopEntry(tx) ==
  [date |-> tx.date, description |-> tx.description, amount |-> Abs(tx.amount),
   category |-> CategoryOf(tx)]

RECURSIVE InsertDesc(_, _)
\* sorted with e put behind every entry whose amount is not smaller
InsertDesc(sorted, e) ==
  IF sorted = <<>> THEN <<e>>
  ELSE IF sorted[Len(sorted)].amount >= e.amount THEN Append(sorted, e)
  ELSE Append(InsertDesc(SubSeq(sorted, 1, Len(sorted) - 1), e), sorted[Len(sorted)])

RECURSIVE SortDesc(_)
\* list.sort(key=lambda x: x["amount"], reverse=True): equal amounts keep
\* their order
SortDesc(entries) ==
  IF entries = <<>> THEN <<>>
  ELSE InsertDesc(SortDesc(SubSeq(entries, 1, Len(entries) - 1)), entries[Len(entries)])

\* TopTen that keeps the entries in the order of the transactions
TopTen_unsorted(txs) ==
  LET entries == [j \in 1..Len(txs) |-> TopEntry(txs[j])]
  IN  SubSeq(entries, 1, Min(10, Len(entries)))

\* the list sorted by amount, largest first, cut to its first 10 entries
TopTen(txs) ==
  LET sorted == SortDesc([j \in 1..Len(txs) |-> TopEntry(txs[j])])
  IN  SubSeq(sorted, 1, Min(10, Len(sorted)))

\* a / b: a fraction, or the ZeroDivisionError of a division by 0
Div(a, b) ==
  IF b = 0 THEN [error |-> "ZeroDivisionError", num |-> a, den |-> 0]
  ELSE [error |-> "", num |-> a, den |-> b]

\* CategoryInsights dividing by the total without looking at it
CategoryInsights_unguarded(expense_breakdown, total_expenses) ==
  [c \in DOMAIN expense_breakdown |->
     [percentage |-> Div(expense_breakdown[c].amount * 100, total_expenses),
      average_amount |-> Div(expense_breakdown[c].amount, expense_breakdown[c].count)]]

\* category_insights: share of the total and average amount per category
CategoryInsights(expense_breakdown, total_expenses) ==
  [c \in DOMAIN expense_breakdown |->
     [percentage |->
        IF total_expenses > 0
        THEN Div(expense_breakdown[c].amount * 100, total_expenses)
        ELSE Div(0, 1),
      average_amount |->
        IF expense_breakdown[c].count > 0
        THEN Div(expense_breakdown[c].amount, expense_breakdown[c].count)
        ELSE Div(0, 1)]]

\* TotalIncome adding up the signed amounts
TotalIncome_signed(income) ==
  SumSeq(Amounts(income))

\* insights["summary"]["total_income"] after the loop
TotalIncome(income) ==
  SumSeq(AbsAmounts(income))

\* the dictionary returned for the date-sorted transaction values txs
Insights(txs) ==
  IF txs = <<>>
  THEN [total_transactions |-> 0, total_income |-> 0, total_expenses |-> 0,
        net_cash_flow |-> 0, date_range |-> [from |-> "", to |-> ""],
        categorization_confidence |-> Div(0, 1),
        income_breakdown |-> <<>>, expense_breakdown |-> <<>>,
        monthly_analysis |-> <<>>, top_expenses |-> <<>>, top_income |-> <<>>,
        category_insights |-> <<>>,
        low_confidence_transactions |-> <<>>]
  ELSE LET income == SelectSeq(txs, LAMBDA tx : tx.type = Str("income"))
           others == SelectSeq(txs, LAMBDA tx : tx.type # Str("income"))
           total_income == TotalIncome(income)
           total_expenses == SumSeq(AbsAmounts(others))
           confidences == SelectSeq(txs, LAMBDA tx : ~IsNone(tx.confidence))
       IN  [total_transactions |-> Len(txs),
            total_income |-> total_income,
            total_expenses |-> total_expenses,
            net_cash_flow |-> total_income - total_expenses,
            date_range |-> [from |-> txs[1].date, to |-> txs[Len(txs)].date],
            categorization_confidence |->
              IF confidences = <<>> THEN Div(0, 1)
              ELSE Div(SumSeq([j \in 1..Len(confidences) |-> confidences[j].confidence.n]),
                       Len(confidences)),
            income_breakdown |-> Breakdown(income),
            expense_breakdown |-> Breakdown(others),
            monthly_analysis |-> MonthlyAnalysis(txs),
            top_expenses |-> TopTen(others),
            top_income |-> TopTen(income),
            category_insights |-> CategoryInsights(Breakdown(others), total_expenses),
            low_confidence_transactions |->
              SelectSeq(txs, LAMBDA tx : Truthy(tx.confidence) /\ tx.confidence.n < 500)]

\* ------------------------------------------------------------------------
\* Lists, batches and events
\* ------------------------------------------------------------------------
\* the transaction values a list of identities stands for
Values(h, ids) == [j \in 1..Len(ids) |-> h[ids[j]]]

\* transactions[i:i + batch_size]
Slice(list, from) == SubSeq(list, from + 1, Min(from + batch_size, Len(list)))

\* len(transactions) // batch_size + (1 if len(transactions) % batch_size else 0)
TotalBatches(n) == (n \div batch_size) + (IF n % batch_size # 0 THEN 1 ELSE 0)

\* min((processed / len(transactions)) * 100, 100) as a fraction num / den
Progress(processed, n) == [num |-> Min(processed * 100, 100 * n), den |-> n]

\* Event reporting the size of the batch as total_processed
EventBatchCount(batch_number, n, processed, new_transactions, total_processed, insights, has_error) ==
  [event |-> "batch_complete",
   batch_number |-> batch_number,
   total_batches |-> TotalBatches(n),
   progress_percentage |-> Progress(processed, n),
   new_transactions |-> new_transactions,
   total_processed |-> Len(new_transactions),
   insights |-> insights,
   has_error |-> has_error,
   error_batch |-> IF has_error THEN batch_number ELSE 0]

\* the dictionary yielded for a batch; has_error tells whether the "error" key
\* is present, error_batch is the batch number its text names
Event(batch_number, n, processed, new_transactions, total_processed, insights, has_error) ==
  [event |-> "batch_complete",
   batch_number |-> batch_number,
   total_batches |-> TotalBatches(n),
   progress_percentage |-> Progress(processed, n),
   new_transactions |-> new_transactions,
   total_processed |-> total_processed,
   insights |-> insights,
   has_error |-> has_error,
   error_batch |-> IF has_error THEN batch_number ELSE 0]

\* ------------------------------------------------------------------------
\* Analyzer instances
\* ------------------------------------------------------------------------
\* the models an instance can be constructed with
Models == {"google/gemini-flash-1.5", "openai/gpt-4o-mini"}

\* FinancialAnalyzer(...): where it was constructed ("default": at import,
\* "request": for a request with its own api_key, "configure": by the
\* configuration endpoint), whether _initialize_client left a client, and
\* self.model; no method assigns these attributes after __init__
Instance(origin, client, model) ==
  [origin |-> origin, openai_client |-> client, model |-> model]

\* a process whose only instance is the one made at import, used by the
\* request at hand
DefaultAnalyzer ==
  /\ instances = <<Instance("default", openai_client, "google/gemini-flash-1.5")>>
  /\ analyzer = 1
  /\ current_analyzer = 1
  /\ batch_analyzers = <<>>

\* a batch loop that looks the analyzer up in the module-level name at every
\* batch
Self_global == analyzer

\* self inside the methods of the request: the instance the endpoint bound
\* to current_analyzer before the first call
Self == current_analyzer

\* which instance, with which client and model, classifies the batch that is
\* started now, and what the module-level name pointed to at that moment
BatchAnalyzer ==
  [instance |-> Self,
   openai_client |-> instances[Self].openai_client,
   model |-> instances[Self].model,
   global |-> analyzer]

Init ==
  /\ \E n \in Lens, pattern \in Patterns :
        /\ heap = [j \in 1..n |-> ParsedRow(pattern, j)]
        /\ input = [j \in 1..n |-> ParsedRow(pattern, j)]
        /\ transactions = [j \in 1..n |-> j]
  /\ openai_client \in BOOLEAN
  /\ mode = "none"
  /\ pc = "start"
  /\ i = 0
  /\ categorized = <<>>
  /\ events = <<>>
  /\ calls = 0
  /\ outstanding = 0
  /\ outcomes = <<>>
  /\ fallback_table = [key \in InputKeys |-> FallbackLabels(key[1], key[2])]
  /\ final_insights = Insights(<<>>)
  /\ suggestions = <<>>
  /\ file_data = NoFile
  /\ DefaultAnalyzer

\* ------------------------------------------------------------------------
\* categorize_transactions_with_llm
\* ------------------------------------------------------------------------
\* entry: without a client every transaction is labelled by the Fallback
\* Classifier and the list is returned; with a client the batch loop starts
categorize_transactions_with_llm ==
  /\ pc = "start"
  /\ mode' = "llm"
  /\ IF ~openai_client
     THEN /\ heap' = FallbackAll(heap, transactions)
          /\ categorized' = transactions
          /\ pc' = "returned"
     ELSE /\ pc' = "loop"
          /\ UNCHANGED <<heap, categorized>>
  /\ UNCHANGED <<transactions, input, openai_client, i, events, calls,
                 outstanding, outcomes, fallback_table, final_insights, suggestions, file_data,
                 analyzer, instances, current_analyzer, batch_analyzers>>

\* ------------------------------------------------------------------------
\* categorize_transactions_streaming
\* ------------------------------------------------------------------------
\* the consumer asks the generator for its first event
categorize_transactions_streaming ==
  /\ pc = "start"
  /\ mode' = "stream"
  /\ pc' = "loop"
  /\ UNCHANGED <<heap, transactions, input, openai_client, i, categorized,
                 events, calls, outstanding, outcomes, fallback_table, final_insights, suggestions, file_data,
                 analyzer, instances, current_analyzer, batch_analyzers>>

\* one pass of the loop without a client, up to its yield
FallbackBatch ==
  /\ pc = "loop" /\ mode = "stream" /\ ~openai_client
  /\ i < Len(transactions)
  /\ LET batch == Slice(transactions, i)
         h == FallbackAll(heap, batch)
         all_processed == categorized \o batch
     IN  /\ heap' = h
         /\ categorized' = all_processed
         /\ events' = Append(events,
                Event((i \div batch_size) + 1, Len(transactions), i + batch_size,
                      Values(h, batch), Len(all_processed),
                      generate_incremental_insights(Values(h, all_processed)),
                      FALSE))
  /\ pc' = "yielded"
  /\ batch_analyzers' = Append(batch_analyzers, BatchAnalyzer)
  /\ UNCHANGED <<transactions, input, openai_client, mode, i, calls,
                 outstanding, outcomes, fallback_table, final_insights, suggestions, file_data,
                 analyzer, instances, current_analyzer>>

\* StartBatch that does not wait for the call in flight before it starts the
\* next one
StartBatchEager ==
  /\ pc \in {"loop", "awaiting"} /\ openai_client
  /\ i < Len(transactions)
  /\ calls < TotalBatches(Len(transactions))
  /\ calls' = calls + 1
  /\ outstanding' = outstanding + 1
  /\ pc' = "awaiting"
  /\ batch_analyzers' = Append(batch_analyzers, BatchAnalyzer)
  /\ UNCHANGED <<heap, transactions, input, openai_client, mode, i, categorized,
                 events, outcomes, fallback_table, final_insights, suggestions, file_data,
                 analyzer, instances, current_analyzer>>

\* with a client, both entry points: the loop takes the next batch and awaits
\* the backend call of _categorize_batch
StartBatch ==
  /\ pc = "loop" /\ openai_client
  /\ i < Len(transactions)
  /\ calls' = calls + 1
  /\ outstanding' = outstanding + 1
  /\ pc' = "awaiting"
  /\ batch_analyzers' = Append(batch_analyzers, BatchAnalyzer)
  /\ UNCHANGED <<heap, transactions, input, openai_client, mode, i, categorized,
                 events, outcomes, fallback_table, final_insights, suggestions, file_data,
                 analyzer, instances, current_analyzer>>

\* categorize_transactions_with_llm after the call is answered: the rest of
\* _categorize_batch, then the list is extended and the loop goes on
LlmBatchDone(o) ==
  /\ pc = "awaiting" /\ mode = "llm"
  /\ LET batch == Slice(transactions, i)
         r == categorize_batch(heap, batch, o)
     IN  /\ heap' = r.heap
         /\ categorized' = categorized \o r.result
  /\ outstanding' = outstanding - 1
  /\ outcomes' = Append(outcomes, o)
  /\ i' = i + batch_size
  /\ pc' = "loop"
  /\ UNCHANGED <<transactions, input, openai_client, mode, events, calls,
                 fallback_table, final_insights, suggestions, file_data,
                 analyzer, instances, current_analyzer, batch_analyzers>>

\* categorize_transactions_streaming after the call is answered, up to its
\* yield.  When the insights of the try block raise, the except branch labels
\* the batch again by the Fallback Classifier, extends the list a second time
\* and recomputes the insights; when these raise too, the generator raises.
StreamBatchDone(o) ==
  /\ pc = "awaiting" /\ mode = "stream"
  /\ LET batch == Slice(transactions, i)
         batch_number == (i \div batch_size) + 1
         n == Len(transactions)
         r == categorize_batch(heap, batch, o)
         all1 == categorized \o r.result
         h2 == FallbackAll(r.heap, batch)
         all2 == all1 \o batch
     IN  IF ~InsightsRaise(Values(r.heap, all1))
         THEN /\ heap' = r.heap
              /\ categorized' = all1
              /\ events' = Append(events,
                     Event(batch_number, n, i + Len(batch), Values(r.heap, r.result),
                           Len(all1),
                           generate_incremental_insights(Values(r.heap, all1)),
                           FALSE))
              /\ pc' = "yielded"
         ELSE /\ heap' = h2
              /\ categorized' = all2
              /\ IF ~InsightsRaise(Values(h2, all2))
                 THEN /\ events' = Append(events,
                            Event(batch_number, n, i + Len(batch), Values(h2, batch),
                                  Len(all2),
                                  generate_incremental_insights(Values(h2, all2)),
                                  TRUE))
                      /\ pc' = "yielded"
                 ELSE /\ events' = events
                      /\ pc' = "raised"
  /\ outstanding' = outstanding - 1
  /\ outcomes' = Append(outcomes, o)
  /\ UNCHANGED <<transactions, input, openai_client, mode, i, calls,
                 fallback_table, final_insights, suggestions, file_data,
                 analyzer, instances, current_analyzer, batch_analyzers>>

\* the consumer has taken the event and asks for the next one
ConsumerNext ==
  /\ pc = "yielded"
  /\ i' = i + batch_size
  /\ pc' = "loop"
  /\ UNCHANGED <<heap, transactions, input, openai_client, mode, categorized,
                 events, calls, outstanding, outcomes, fallback_table, final_insights, suggestions, file_data,
                 analyzer, instances, current_analyzer, batch_analyzers>>

\* the loop is exhausted: the list is returned / the generator ends
Return ==
  /\ pc = "loop"
  /\ i >= Len(transactions)
  /\ pc' = "returned"
  /\ UNCHANGED <<heap, transactions, input, openai_client, mode, i, categorized,
                 events, calls, outstanding, outcomes, fallback_table, final_insights, suggestions, file_data,
                 analyzer, instances, current_analyzer, batch_analyzers>>

\* ------------------------------------------------------------------------
\* generate_insights, as the endpoints call it
\* ------------------------------------------------------------------------
\* analyze_file passes the list categorize_transactions_with_llm returned,
\* stream_analysis the list it parsed.  The list is sorted in place before
\* anything that can raise.
generate_insights ==
  /\ pc = "returned"
  /\ LET sorted == SortByDate(heap, IF mode = "llm" THEN categorized ELSE transactions)
     IN  /\ IF mode = "llm"
            THEN categorized' = sorted /\ transactions' = transactions
            ELSE transactions' = sorted /\ categorized' = categorized
         /\ IF FullInsightsRaise(Values(heap, sorted))
            THEN pc' = "failed" /\ final_insights' = final_insights
            ELSE pc' = "analysed" /\ final_insights' = Insights(Values(heap, sorted))
  /\ UNCHANGED <<heap, input, openai_client, mode, i, events, calls, outstanding,
                 outcomes, fallback_table, suggestions, file_data,
                 analyzer, instances, current_analyzer, batch_analyzers>>

\* ------------------------------------------------------------------------
\* generate_suggestions_with_llm
\* ------------------------------------------------------------------------
\* what the backend does with the suggestions prompt: the call raises, the
\* content is not JSON, it is JSON but no list, or it is a list of one well
\* formed suggestion and one with an unknown category
SuggestionOutcomes == {"raise", "nonjson", "not_list", "list"}

\* max(expense_breakdown.items(), key=lambda x: x[1]) compares the
\* {"amount", "count"} dictionaries of two categories, and with one category
\* top_category[1] > 0 compares its dictionary with 0: TypeError either way
FallbackSuggestionsRaise(ins) ==
  DOMAIN ins.expense_breakdown # {}

\* the ids of the suggestions _generate_fallback_suggestions appends
generate_fallback_suggestions(ins) ==
  (IF Len(ins.low_confidence_transactions) > 0 THEN <<"review-transactions">> ELSE <<>>)
  \o (IF /\ ins.total_income > 0
          /\ (ins.total_income - ins.total_expenses) * 100 < 20 * ins.total_income
       THEN <<"improve-savings">> ELSE <<>>)

\* the endpoint calls generate_suggestions_with_llm(transactions, insights):
\* without a client, or when the call or the parsing of its answer raises,
\* the fallback suggestions are computed, outside any try block
generate_suggestions_with_llm(o) ==
  /\ pc = "analysed"
  /\ IF openai_client /\ o = "list"
     THEN /\ suggestions' = <<"llm-1">>
          /\ pc' = "suggested"
     ELSE IF FallbackSuggestionsRaise(final_insights)
     THEN /\ suggestions' = suggestions
          /\ pc' = "suggestions_raised"
     ELSE /\ suggestions' = generate_fallback_suggestions(final_insights)
          /\ pc' = "suggested"
  /\ UNCHANGED <<heap, transactions, input, openai_client, mode, i, categorized,
                 events, calls, outstanding, outcomes, fallback_table, final_insights,
                 file_data,
                 analyzer, instances, current_analyzer, batch_analyzers>>

Next ==
  \/ categorize_transactions_with_llm
  \/ categorize_transactions_streaming
  \/ FallbackBatch
  \/ StartBatch
  \/ \E o \in Outcomes : LlmBatchDone(o)
  \/ \E o \in Outcomes : StreamBatchDone(o)
  \/ ConsumerNext
  \/ Return
  \/ generate_insights
  \/ \E o \in SuggestionOutcomes : generate_suggestions_with_llm(o)

Spec == Init /\ [][Next]_vars

\* ------------------------------------------------------------------------
\* The Fallback Classifier on its own: calls of _fallback_categorize on two
\* Transaction objects with the same date, description and amount
\* ------------------------------------------------------------------------
\* calls made in one run
MaxCalls == 3

\* descriptions as a file holds them
Descriptions ==
  {"Expense Reimbursement", "Refund of Bill Payment", "Freelance payment",
   "Electricity bill", "xyz", "salary", "Consulting bonus gift",
   "store pharmacy", "Swiggy Dinner Order", " coffee ", "Grocery market",
   "Fresh vegetables", "Hotel", "Dividend"}

ClassifierAmounts == {-5, 0, 5}

\* labels the second object carries before the first call: none (the
\* dataclass defaults), or some given to the constructor
PriorLabels ==
  {[type |-> None, category |-> None, confidence |-> None],
   [type |-> Str("expense"), category |-> Str("Shopping & Retail"), confidence |-> Num(990)],
   [type |-> Str("income"), category |-> Str("Gifts"), confidence |-> None]}

ClassifierKeys == Descriptions \X ClassifierAmounts

InitClassifier ==
  /\ fallback_table = [key \in ClassifierKeys |-> FallbackLabels(key[1], key[2])]
  /\ \E description \in Descriptions, amount \in ClassifierAmounts, l \in PriorLabels :
        LET tx == Transaction("2024-01-15", description, amount)
            labelled == [tx EXCEPT !.type = l.type, !.category = l.category,
                                   !.confidence = l.confidence]
        IN  /\ heap = <<tx, labelled>>
            /\ input = <<tx, labelled>>
  /\ transactions = <<1, 2>>
  /\ openai_client = FALSE
  /\ mode = "classifier"
  /\ pc = "start"
  /\ i = 0
  /\ categorized = <<>>
  /\ events = <<>>
  /\ calls = 0
  /\ outstanding = 0
  /\ outcomes = <<>>
  /\ final_insights = Insights(<<>>)
  /\ suggestions = <<>>
  /\ file_data = NoFile
  /\ DefaultAnalyzer

\* self._fallback_categorize(transaction) on the object obj; the returned
\* object is the argument, its labels at the return are logged in events
FallbackCall(obj) ==
  /\ mode = "classifier"
  /\ Len(events) < MaxCalls
  /\ heap' = [heap EXCEPT ![obj] = fallback_categorize(heap[obj])]
  /\ events' = Append(events,
        [object |-> obj,
         type |-> heap'[obj].type,
         category |-> heap'[obj].category,
         confidence |-> heap'[obj].confidence])
  /\ UNCHANGED <<transactions, input, openai_client, mode, pc, i, categorized,
                 calls, outstanding, outcomes, fallback_table, final_insights, suggestions, file_data,
                 analyzer, instances, current_analyzer, batch_analyzers>>

NextClassifier == \E obj \in 1..2 : FallbackCall(obj)

SpecClassifier == InitClassifier /\ [][NextClassifier]_vars

\* ------------------------------------------------------------------------
\* generate_insights and generate_suggestions_with_llm on their own: the
\* endpoint holds a categorized list of up to MaxRows transactions
\* ------------------------------------------------------------------------
MaxRows == 3

\* a Transaction as classification can leave it
Labelled(date, description, amount, type, category, confidence) ==
  [date |-> date, description |-> description, amount |-> amount,
   category |-> category, type |-> type, confidence |-> confidence]

\* the transactions a categorized list is made of: amounts of either sign
\* and 0, confidences 0, below, at and above 0.5, None and a string, dates
\* of two months, one without leading zeros and one too short to hold a month
InsightRows ==
  {Labelled("2024-02-10", "a", -5, Str("expense"), Str("Food"), Num(0)),
   Labelled("2024-1-5", "b", 0, Str("expense"), Str("Other"), Num(400)),
   Labelled("1/5", "c", 7, Str("expense"), None, Num(500)),
   Labelled("2024-02-10", "d", 7, Str("income"), Str("Salary"), Num(0)),
   Labelled("2024-1-5", "e", -5, Str("income"), None, Num(400)),
   Labelled("2024-02-10", "f", 0, Str("income"), Str("Salary"), Num(900)),
   Labelled("2024-02-10", "g", 0, Str("expense"), Str("Food"), None),
   Labelled("2024-02-30", "h", -5, None, Str("Food"), Num(500)),
   Labelled("2024-02-10", "i", 7, Str("expense"), Str("Food"), Str("high"))}

InitInsights ==
  /\ \E n \in 0..MaxRows : \E rows \in [1..n -> InsightRows] :
        /\ heap = rows
        /\ input = rows
        /\ transactions = [j \in 1..n |-> j]
        /\ categorized = [j \in 1..n |-> j]
  /\ openai_client \in BOOLEAN
  /\ mode = "llm"
  /\ pc = "returned"
  /\ i = 0
  /\ events = <<>>
  /\ calls = 0
  /\ outstanding = 0
  /\ outcomes = <<>>
  /\ fallback_table = <<>>
  /\ final_insights = Insights(<<>>)
  /\ suggestions = <<>>
  /\ file_data = NoFile
  /\ DefaultAnalyzer

NextInsights ==
  \/ generate_insights
  \/ \E o \in SuggestionOutcomes : generate_suggestions_with_llm(o)

SpecInsights == InitInsights /\ [][NextInsights]_vars

\* ------------------------------------------------------------------------
\* parse_json_file on its own
\* ------------------------------------------------------------------------
InitParse ==
  /\ file_data \in JsonDocuments
  /\ heap = <<>>
  /\ input = <<>>
  /\ transactions = <<>>
  /\ openai_client = FALSE
  /\ mode = "parse"
  /\ pc = "start"
  /\ i = 0
  /\ categorized = <<>>
  /\ events = <<>>
  /\ calls = 0
  /\ outstanding = 0
  /\ outcomes = <<>>
  /\ fallback_table = <<>>
  /\ final_insights = Insights(<<>>)
  /\ suggestions = <<>>
  /\ DefaultAnalyzer

\* parse_json_file(file_path): the list of new Transaction objects is
\* returned, or the exception leaves the function and nothing is returned
parse_json_file ==
  /\ mode = "parse" /\ pc = "start"
  /\ IF ParseRaises(file_data)
     THEN /\ pc' = "parse_raised"
          /\ UNCHANGED <<heap, transactions>>
     ELSE /\ pc' = "parsed"
          /\ heap' = [j \in 1..Len(IteratedItems(file_data)) |->
                        ElementTransaction(IteratedItems(file_data)[j])]
          /\ transactions' = [j \in 1..Len(IteratedItems(file_data)) |-> j]
  /\ UNCHANGED <<input, openai_client, mode, i, categorized, events, calls,
                 outstanding, outcomes, fallback_table, final_insights, suggestions,
                 file_data,
                 analyzer, instances, current_analyzer, batch_analyzers>>

NextParse == parse_json_file

SpecParse == InitParse /\ [][NextParse]_vars

\* ------------------------------------------------------------------------
\* Requests and configuration of src/web_api.py in one process
\* ------------------------------------------------------------------------
\* configuration operations in one run
MaxConfigs == 1

ConfigLens == {2, MaxN}

\* the backend answers well or the call raises
ConfigOutcomes == {o \in Outcomes : o.kind \in {"full", "raise"}}

\* the process is up with its default analyzer and a request has arrived
\* with its file parsed; the endpoint has not yet chosen its analyzer
InitConfig ==
  /\ \E n \in ConfigLens :
        /\ heap = [j \in 1..n |-> ParsedRow("distinct", j)]
        /\ input = [j \in 1..n |-> ParsedRow("distinct", j)]
        /\ transactions = [j \in 1..n |-> j]
  /\ openai_client \in BOOLEAN
  /\ mode = "none"
  /\ pc = "request"
  /\ i = 0
  /\ categorized = <<>>
  /\ events = <<>>
  /\ calls = 0
  /\ outstanding = 0
  /\ outcomes = <<>>
  /\ fallback_table = [key \in InputKeys |-> FallbackLabels(key[1], key[2])]
  /\ final_insights = Insights(<<>>)
  /\ suggestions = <<>>
  /\ file_data = NoFile
  /\ DefaultAnalyzer

\* analyze_file / stream_analysis: with an api_key the request constructs
\* its own analyzer, without one it takes the object the module-level name
\* points to now
bind_analyzer(api_key, client, model) ==
  /\ pc = "request"
  /\ IF api_key
     THEN /\ instances' = Append(instances, Instance("request", client, model))
          /\ current_analyzer' = Len(instances) + 1
          /\ openai_client' = client
     ELSE /\ instances' = instances
          /\ current_analyzer' = analyzer
          /\ openai_client' = instances[analyzer].openai_client
  /\ pc' = "start"
  /\ UNCHANGED <<heap, transactions, input, mode, i, categorized, events, calls,
                 outstanding, outcomes, fallback_table, final_insights, suggestions,
                 file_data, analyzer, batch_analyzers>>

\* configure_llm_endpoint: a new FinancialAnalyzer is constructed and the
\* module-level name is bound to it; the handler has no await, so it runs
\* between any two steps of a request
configure_llm_endpoint(client, model) ==
  /\ Cardinality({k \in 1..Len(instances) : instances[k].origin = "configure"})
       < MaxConfigs
  /\ instances' = Append(instances, Instance("configure", client, model))
  /\ analyzer' = Len(instances) + 1
  /\ UNCHANGED <<heap, transactions, input, openai_client, mode, pc, i, categorized,
                 events, calls, outstanding, outcomes, fallback_table, final_insights,
                 suggestions, file_data, current_analyzer, batch_analyzers>>

NextConfig ==
  \/ \E api_key \in BOOLEAN, client \in BOOLEAN, model \in Models :
        bind_analyzer(api_key, client, model)
  \/ \E client \in BOOLEAN, model \in Models : configure_llm_endpoint(client, model)
  \/ categorize_transactions_with_llm
  \/ categorize_transactions_streaming
  \/ FallbackBatch
  \/ StartBatch
  \/ \E o \in ConfigOutcomes : LlmBatchDone(o)
  \/ \E o \in ConfigOutcomes : StreamBatchDone(o)
  \/ ConsumerNext
  \/ Return

SpecConfig == InitConfig /\ [][NextConfig]_vars

\* ------------------------------------------------------------------------
\* Properties
\* ------------------------------------------------------------------------
Key(tx) == <<tx.date, tx.description, tx.amount>>

Labels(tx) == [type |-> tx.type, category |-> tx.category, confidence |-> tx.confidence]

\* the labels an entry of a backend response carries
EntryLabels(e) ==
  [type |-> e.type, category |-> e.category,
   confidence |-> IF e.has_confidence THEN e.confidence ELSE Num(500)]

\* what the Fallback Classifier gives the j-th input row
FallbackOf(j) == FallbackLabels(input[j].description, input[j].amount)

CeilDiv(n, d) == (n + d - 1) \div d

\* first and last input position (1-based) of batch k
BatchLo(k) == batch_size * (k - 1) + 1

BatchHi(k) == Min(batch_size * k, Len(input))

BatchLen(k) == BatchHi(k) - BatchLo(k) + 1

\* the j-th transaction of the result list
Out(j) == heap[categorized[j]]

LlmReturned == mode = "llm" /\ pc = "returned"

\* the response has a well-formed entry for every id of the batch
Complete(o) == o.kind \in {"full", "reversed"}

\* C1: categorize_transactions_with_llm returns as many transactions as it
\* was given, and the i-th returned (date, description, amount) is the i-th
\* input's, whatever the backend did with each batch.
C1_OrderPreserved ==
  LlmReturned =>
    /\ Len(categorized) = Len(input)
    /\ \A j \in 1..Len(input) : Key(Out(j)) = Key(input[j])

\* C1 witness: a three-batch call returned after one batch's call failed and
\* another batch's response missed a result
C1_Witness ==
  /\ LlmReturned /\ Len(outcomes) = 3
  /\ \E k \in 1..3 : CallFailed(outcomes[k])
  /\ \E k \in 1..3 : outcomes[k].kind = "missing"

\* C2 (as claimed): after categorize_transactions_with_llm returns, every
\* returned transaction has type, category and confidence all non-null.
C2_FullyLabeled ==
  LlmReturned =>
    \A j \in 1..Len(categorized) :
      ~IsNone(Out(j).type) /\ ~IsNone(Out(j).category) /\ ~IsNone(Out(j).confidence)

\* C3: when the backend call of a batch fails, exactly that batch's
\* transactions carry the Fallback Classifier's labels, every batch with a
\* complete response carries labels taken from its own response, and every
\* batch is sent to the backend.
C3_BatchFallbackIsolated ==
  (LlmReturned /\ openai_client) =>
    /\ calls = CeilDiv(Len(input), batch_size)
    /\ Len(outcomes) = calls
    /\ \A k \in 1..Len(outcomes) :
         /\ CallFailed(outcomes[k]) =>
              \A j \in BatchLo(k)..BatchHi(k) : Labels(Out(j)) = FallbackOf(j)
         /\ Complete(outcomes[k]) =>
              \A j \in BatchLo(k)..BatchHi(k) :
                 /\ Labels(Out(j)) # FallbackOf(j)
                 /\ \E id \in 0..(BatchLen(k) - 1) :
                       Labels(Out(j)) = EntryLabels(GoodEntry(id))

\* C3 witness: three batches, the second call failed, the other two answered
\* completely
C3_Witness ==
  /\ LlmReturned /\ Len(outcomes) = 3
  /\ Complete(outcomes[1]) /\ CallFailed(outcomes[2]) /\ Complete(outcomes[3])

\* C4 (as claimed): in a batch with a complete response, the transaction at
\* batch position p carries the labels of the result whose id is p.
C4_PositionalMatch ==
  LlmReturned =>
    \A k \in 1..Len(outcomes) :
      Complete(outcomes[k]) =>
        \A p \in 0..(BatchLen(k) - 1) :
          Labels(Out(BatchLo(k) + p)) = EntryLabels(GoodEntry(p))

\* C5 (as claimed): when the response has no result for one position, that
\* transaction alone is labelled by the Fallback Classifier and the others
\* keep the labels of their own results.
C5_MissingAloneFallsBack ==
  LlmReturned =>
    \A k \in 1..Len(outcomes) :
      (outcomes[k].kind = "missing" /\ outcomes[k].p < BatchLen(k)) =>
        \A p \in 0..(BatchLen(k) - 1) :
          Labels(Out(BatchLo(k) + p)) =
            IF p = outcomes[k].p THEN FallbackOf(BatchLo(k) + p)
            ELSE EntryLabels(GoodEntry(p))

\* C6 (as claimed): the event of a batch carries the error annotation, naming
\* that batch, exactly when the batch's backend call failed.
C6_ErrorAnnotation ==
  (mode = "stream" /\ openai_client) =>
    \A k \in 1..Len(events) :
      /\ events[k].has_error <=> CallFailed(outcomes[k])
      /\ events[k].has_error => events[k].error_batch = k

\* C7 (as claimed): whatever the backend does, neither entry point raises, and
\* a stream that has ended has emitted one event for every batch.
C7_NeverRaises ==
  /\ pc # "raised"
  /\ (mode = "stream" /\ pc = "returned") =>
        Len(events) = CeilDiv(Len(input), batch_size)

\* C8 (as claimed): progress_percentage never decreases from one event to the
\* next, and once the stream of a non-empty input has ended its last event
\* reports 100.
C8_ProgressReaches100 ==
  mode = "stream" =>
    /\ \A k \in 1..(Len(events) - 1) :
          events[k].progress_percentage.num <= events[k + 1].progress_percentage.num
    /\ (pc \in {"returned", "raised"} /\ events # <<>>) =>
          events[Len(events)].progress_percentage.num =
            100 * events[Len(events)].progress_percentage.den

\* C9: at most one backend call is outstanding, and the call for batch k + 1
\* is started only after the event of batch k has been yielded.
C9_OneCallAtATime ==
  /\ outstanding <= 1
  /\ mode = "stream" => calls <= Len(events) + 1
  /\ (mode = "stream" /\ pc = "awaiting") => Len(events) = calls - 1

\* C9 witness: the third call of a stream is outstanding, two events are out
C9_Witness ==
  mode = "stream" /\ pc = "awaiting" /\ calls = 3 /\ Len(events) = 2

\* C10: the k-th event has batch_number k, total_batches ceil(n/20),
\* total_processed min(20k, n), new_transactions the labelled transactions of
\* input positions 20(k-1)+1 .. min(20k, n), and insights over exactly the
\* first total_processed transactions of the result, each input row once.
C10_EventContents ==
  mode = "stream" =>
    \A k \in 1..Len(events) :
      LET e == events[k]
          done == SubSeq(categorized, 1, BatchHi(k))
      IN  /\ e.batch_number = k
          /\ e.total_batches = CeilDiv(Len(input), batch_size)
          /\ e.total_processed = BatchHi(k)
          /\ Len(e.new_transactions) = BatchLen(k)
          /\ \A j \in 1..BatchLen(k) :
                /\ e.new_transactions[j] = Out(BatchLo(k) + j - 1)
                /\ Key(e.new_transactions[j]) = Key(input[BatchLo(k) + j - 1])
          /\ \A j \in 1..BatchHi(k) : Key(Out(j)) = Key(input[j])
          /\ e.insights.total_transactions = BatchHi(k)
          /\ e.insights.total_income =
               SumSeq([j \in 1..BatchHi(k) |->
                         IF Out(j).type = Str("income") THEN Out(j).amount ELSE 0])
          /\ e.insights = generate_incremental_insights(Values(heap, done))

\* C10 witness: the third event of a stream with a client, after a batch that
\* fell back as a whole
C10_Witness ==
  /\ mode = "stream" /\ openai_client /\ Len(events) = 3
  /\ \E k \in 1..3 : CallFailed(outcomes[k])
  /\ BatchLen(3) < batch_size

\* C11: without a backend client both entry points make no backend call, do
\* not raise, and give every transaction they return exactly the labels the
\* Fallback Classifier computes from its description and amount; a finished
\* run has labelled every input transaction.
C11_NoClientFallbackOnly ==
  ~openai_client =>
    /\ calls = 0
    /\ pc # "raised"
    /\ \A j \in 1..Len(categorized) :
          Labels(Out(j)) = FallbackLabels(Out(j).description, Out(j).amount)
    /\ pc = "returned" => Len(categorized) = Len(input)

C11_Witness ==
  /\ ~openai_client
  /\ pc = "returned"
  /\ Len(categorized) > batch_size

\* the lower-cased description of the two objects of a classifier run
CallDescription == Lower(input[1].description)

CallAmount == input[1].amount

\* no keyword of any type tier occurs in the description
NoTypeKeyword(d) ==
  /\ ~AnyIn(priority_income_keywords, d)
  /\ ~AnyIn(other_income_keywords, d)
  /\ ~AnyIn(expense_type_keywords, d)
  /\ ~(Contains("expense", d) /\ Contains("reimbursement", d))

\* C12: the type a call of the Fallback Classifier returns follows the tiers
\* in order: income when a priority-income keyword occurs, whatever else
\* occurs and whatever the amount; otherwise income when an other-income
\* keyword occurs; otherwise expense when an expense keyword occurs, also
\* for a positive amount.
C12_TypeTiers ==
  \A k \in 1..Len(events) :
    LET d == CallDescription
        priority == AnyIn(priority_income_keywords, d)
        other == AnyIn(other_income_keywords, d)
    IN  /\ priority => events[k].type = Str("income")
        /\ (~priority /\ other) => events[k].type = Str("income")
        /\ (~priority /\ ~other /\ AnyIn(expense_type_keywords, d))
             => events[k].type = Str("expense")

C12_Witness ==
  /\ events # <<>>
  /\ AnyIn(priority_income_keywords, CallDescription)
  /\ AnyIn(expense_type_keywords, CallDescription)
  /\ CallAmount < 0

\* C13: when no type keyword occurs in the description, the returned type is
\* income for an amount above 0 and expense for an amount of 0 or below.
C13_AmountSign ==
  \A k \in 1..Len(events) :
    NoTypeKeyword(CallDescription) =>
      events[k].type = Str(IF CallAmount > 0 THEN "income" ELSE "expense")

C13_Witness ==
  /\ events # <<>>
  /\ NoTypeKeyword(CallDescription)
  /\ CallAmount = 0

\* C14: all calls on transactions with the same description and amount
\* return the same (type, category, confidence): calls on two objects, and
\* repeated calls on one object, whatever labels it carried before.
C14_Deterministic ==
  \A a, b \in 1..Len(events) :
    /\ events[a].type = events[b].type
    /\ events[a].category = events[b].category
    /\ events[a].confidence = events[b].confidence

C14_Witness ==
  /\ input[2].confidence = Num(990)
  /\ \E a, b, c \in 1..Len(events) :
        /\ a # b
        /\ events[a].object = 2 /\ events[b].object = 2
        /\ events[c].object = 1

\* C15: a call of the Fallback Classifier leaves the fields of the
\* Transaction objects as they were before the call.
C15_ArgumentUnchanged ==
  \A obj \in 1..Len(heap) : heap[obj] = input[obj]

\* the score of category c of a keyword table for description d: the highest
\* score of a keyword of c that occurs in d, 0 when none occurs
CategoryScore(table, c, d) ==
  LET keywords == table[c].keywords
      scores == {KeywordConfidence(keywords, keywords[k], d) :
                   k \in {j \in 1..Len(keywords) : Contains(keywords[j], d)}}
  IN  IF scores = {} THEN 0 ELSE CHOOSE x \in scores : \A y \in scores : y <= x

\* the first category in table order among those with the highest score
BestCategory(table, d) ==
  CHOOSE c \in 1..Len(table) :
    /\ \A e \in 1..Len(table) : CategoryScore(table, e, d) <= CategoryScore(table, c, d)
    /\ \A e \in 1..(c - 1) : CategoryScore(table, e, d) < CategoryScore(table, c, d)

\* C16: for an income-typed as for an expense-typed transaction, when a
\* keyword of the type's table occurs in the description the returned
\* category is the one with the highest score, the first in table order
\* among equals, and the returned confidence is that score.
C16_BestScoreWins ==
  \A k \in 1..Len(events) :
    LET table == IF events[k].type = Str("income") THEN income_keywords
                 ELSE expense_keywords
        c == BestCategory(table, CallDescription)
        score == CategoryScore(table, c, CallDescription)
    IN  score > 0 =>
          /\ events[k].category = Str(table[c].category)
          /\ events[k].confidence = Num(score)

\* C17: every transaction of the result list with a numeric confidence has
\* it within [0, 1], whatever confidence the backend answered.
C17_ConfidenceInRange ==
  \A j \in 1..Len(categorized) :
    Out(j).confidence.k = "num" =>
      (0 <= Out(j).confidence.n /\ Out(j).confidence.n <= 1000)

\* the list the endpoint handed to generate_insights, as transaction values
InsightsInput ==
  Values(heap, IF mode = "llm" THEN categorized ELSE transactions)

\* every transaction has one of the two types
Labeled(txs) ==
  \A j \in 1..Len(txs) : txs[j].type \in {Str("income"), Str("expense")}

\* the sum of |amount| over the transactions of type ty
TotalAbs(txs, ty) ==
  SumSeq([j \in 1..Len(txs) |->
            IF txs[j].type = Str(ty) THEN Abs(txs[j].amount) ELSE 0])

\* C18: for a labeled sequence generate_insights reports total_income as
\* the sum of |amount| over the income transactions, total_expenses as the
\* sum of |amount| over the expense transactions, and net_cash_flow as
\* their difference.
C18_Totals ==
  (pc = "analysed" /\ Labeled(InsightsInput)) =>
    /\ final_insights.total_income = TotalAbs(InsightsInput, "income")
    /\ final_insights.total_expenses = TotalAbs(InsightsInput, "expense")
    /\ final_insights.net_cash_flow =
         final_insights.total_income - final_insights.total_expenses

C18_Witness ==
  /\ pc = "analysed"
  /\ Labeled(InsightsInput)
  /\ Len(InsightsInput) > batch_size
  /\ \E j \in 1..Len(InsightsInput) :
        InsightsInput[j].type = Str("income") /\ InsightsInput[j].amount < 0
  /\ \E j \in 1..Len(InsightsInput) : InsightsInput[j].type = Str("expense")

\* C19: on the same labeled, non-empty sequence generate_incremental_insights
\* reports the same total_income, total_expenses and net_cash_flow as
\* generate_insights.
C19_SameTotals ==
  (/\ pc = "analysed"
   /\ InsightsInput # <<>>
   /\ Labeled(InsightsInput)
   /\ ~InsightsRaise(InsightsInput)) =>
    LET incremental == generate_incremental_insights(InsightsInput)
    IN  /\ incremental.total_income = final_insights.total_income
        /\ incremental.total_expenses = final_insights.total_expenses
        /\ incremental.net_cash_flow = final_insights.net_cash_flow

\* C20: after generate_insights the list the caller passed still holds the
\* transactions in input order.
C20_InputOrderKept ==
  (pc = "analysed" /\ mode = "llm") =>
    \A j \in 1..Len(categorized) : Key(Out(j)) = Key(input[j])

\* C25: the batches are the consecutive slices of 20 input transactions, the
\* last holding the remaining 1..20, and once a request with a backend
\* client is over, exactly ceil(n / 20) backend calls were made for its n
\* transactions.
C25_BatchesAndCalls ==
  /\ \A k \in 1..Len(events) :
        /\ Len(events[k].new_transactions) = BatchLen(k)
        /\ BatchLen(k) \in 1..batch_size
        /\ k < TotalBatches(Len(input)) => BatchLen(k) = batch_size
        /\ \A p \in 1..BatchLen(k) :
              Key(events[k].new_transactions[p]) = Key(input[BatchLo(k) + p - 1])
  /\ (openai_client /\ pc \notin {"start", "loop", "awaiting", "yielded"}) =>
        calls = CeilDiv(Len(input), batch_size)

\* the transactions the batch events carried, in the order they were emitted
RECURSIVE Emitted(_)
Emitted(evs) ==
  IF evs = <<>> THEN <<>>
  ELSE Emitted(SubSeq(evs, 1, Len(evs) - 1)) \o evs[Len(evs)].new_transactions

\* C29: the sequence stream_analysis gives to generate_insights is fully
\* labeled, every transaction with the type, category and confidence a batch
\* event emitted for it.
C29_FinalInsightsLabeled ==
  (mode = "stream" /\ pc \in {"analysed", "failed"}) =>
    \A j \in 1..Len(transactions) :
      LET tx == heap[transactions[j]]
      IN  /\ ~IsNone(tx.type) /\ ~IsNone(tx.category) /\ ~IsNone(tx.confidence)
          /\ \E k \in 1..Len(Emitted(events)) :
                /\ Key(Emitted(events)[k]) = Key(tx)
                /\ Labels(Emitted(events)[k]) = Labels(tx)

\* the keywords of a list that occur in the description, each counted once
DistinctMatching(keywords, d) ==
  Cardinality({keywords[j] : j \in {q \in 1..Len(keywords) : Contains(keywords[q], d)}})

\* score of a matching keyword when the boost counts distinct keywords
DistinctScore(keywords, keyword, d) ==
  ExactBoost(MultiBoost(BaseConfidence(keyword), DistinctMatching(keywords, d)),
             keyword, d)

\* the scores of all matching (category, keyword) pairs of the expense table
DistinctScores(d) ==
  UNION {{DistinctScore(expense_keywords[c].keywords, expense_keywords[c].keywords[j], d) :
            j \in {q \in 1..Len(expense_keywords[c].keywords) :
                     Contains(expense_keywords[c].keywords[q], d)}} :
           c \in 1..Len(expense_keywords)}

\* C27: the confidence of an expense-typed transaction with a matching
\* keyword is the highest score of a matching keyword, where the
\* multi-keyword boost is 0.1 for each further distinct keyword of the
\* category that occurs in the description and nothing when only one does.
C27_DistinctKeywordBoost ==
  \A k \in 1..Len(events) :
    (events[k].type = Str("expense") /\ DistinctScores(CallDescription) # {}) =>
      /\ events[k].confidence.n \in DistinctScores(CallDescription)
      /\ \A x \in DistinctScores(CallDescription) : x <= events[k].confidence.n

\* C21: generate_suggestions_with_llm never raises, and when it cannot use
\* the backend it returns at most 3 suggestions, whatever Insights
\* generate_insights produced.
C21_FallbackSuggestions ==
  /\ pc # "suggestions_raised"
  /\ pc = "suggested" => Len(suggestions) <= 3

\* the transaction is one of the entries of low_confidence_transactions
Listed(tx) ==
  \E k \in 1..Len(final_insights.low_confidence_transactions) :
    final_insights.low_confidence_transactions[k] = tx

\* C22: generate_insights lists in low_confidence_transactions exactly the
\* transactions whose confidence is below 0.5, 0 included.
C22_LowConfidenceListed ==
  pc = "analysed" =>
    \A j \in 1..Len(InsightsInput) :
      InsightsInput[j].confidence.k = "num" =>
        (Listed(InsightsInput[j]) <=> InsightsInput[j].confidence.n < 500)

\* C23: when total_expenses is 0, no division of generate_insights is by 0
\* and every category of category_insights has percentage 0.
C23_PercentageGuard ==
  (pc = "analysed" /\ final_insights.total_expenses = 0) =>
    \A c \in DOMAIN final_insights.category_insights :
      /\ final_insights.category_insights[c].percentage = Div(0, 1)
      /\ final_insights.category_insights[c].average_amount.error = ""

C23_Witness ==
  /\ pc = "analysed"
  /\ final_insights.total_expenses = 0
  /\ Len(InsightsInput) > 1
  /\ DOMAIN final_insights.category_insights # {}

\* the sum of f[x].field over the domain of f
RECURSIVE SumAmounts(_)
SumAmounts(f) ==
  IF DOMAIN f = {} THEN 0
  ELSE LET x == CHOOSE y \in DOMAIN f : TRUE
       IN  f[x] + SumAmounts([y \in DOMAIN f \ {x} |-> f[y]])

IsTopTen(list, typed) ==
  /\ Len(list) = Min(10, Len(typed))
  /\ \A k \in 1..(Len(list) - 1) : list[k].amount >= list[k + 1].amount
  /\ \A k \in 1..Len(list) : \E j \in 1..Len(typed) : list[k] = TopEntry(typed[j])
  /\ \A j \in 1..Len(typed) :
        (list # <<>> /\ Abs(typed[j].amount) > list[Len(list)].amount) =>
          \E k \in 1..Len(list) : list[k] = TopEntry(typed[j])

\* C26: top_expenses and top_income of generate_insights hold min(10, number
\* of transactions of the type) entries in order of non-increasing absolute
\* amount, and no transaction left out has a larger absolute amount than a
\* listed one.
C26_TopLists ==
  (pc = "analysed" /\ Labeled(InsightsInput)) =>
    /\ IsTopTen(final_insights.top_expenses, OfType(InsightsInput, "expense"))
    /\ IsTopTen(final_insights.top_income, OfType(InsightsInput, "income"))

C26_Witness ==
  /\ pc = "analysed"
  /\ Labeled(InsightsInput)
  /\ Len(OfType(InsightsInput, "expense")) > 10
  /\ Len(OfType(InsightsInput, "income")) > 10
  /\ \E j \in 1..(Len(InsightsInput) - 1) :
        /\ InsightsInput[j].type = Str("expense")
        /\ InsightsInput[j + 1].type = Str("expense")
        /\ Abs(InsightsInput[j].amount) < Abs(InsightsInput[j + 1].amount)

\* the document is an array, or an object whose 'transactions' is an array
HasArray(d) ==
  d.value = "array" /\ d.top \in {"array", "object"}

\* C24: parse_json_file returns only for a document that holds an array at
\* its top level or under 'transactions', all of whose elements convert, and
\* then returns one Transaction per element, in order; for every other
\* document it raises and returns nothing.
C24_AllOrNothing ==
  /\ pc = "parsed" =>
        /\ HasArray(file_data)
        /\ Len(transactions) = Len(file_data.items)
        /\ \A j \in 1..Len(file_data.items) :
              /\ ~ElementRaises(file_data.items[j])
              /\ heap[transactions[j]].date = file_data.items[j].date
              /\ heap[transactions[j]].description = file_data.items[j].description
  /\ pc = "parse_raised" =>
        /\ transactions = <<>>
        /\ \/ ~HasArray(file_data)
           \/ \E j \in 1..Len(file_data.items) : ElementRaises(file_data.items[j])

\* C28: every batch of a request is classified by the instance the request
\* bound at its start, with the client and the model that instance had for
\* the first batch, whatever the module-level analyzer was replaced with in
\* between; a request that constructed its own analyzer never uses the
\* module-level one.
C28_RequestAnalyzerFixed ==
  \A k \in 1..Len(batch_analyzers) :
    /\ batch_analyzers[k].instance = current_analyzer
    /\ batch_analyzers[k].instance = batch_analyzers[1].instance
    /\ batch_analyzers[k].openai_client = batch_analyzers[1].openai_client
    /\ batch_analyzers[k].model = batch_analyzers[1].model
    /\ instances[current_analyzer].origin = "request" =>
          batch_analyzers[k].instance # batch_analyzers[k].global

\* a request on the default analyzer had a later batch classified after the
\* module-level analyzer was replaced by one with another client and model
C28_Witness ==
  /\ instances[current_analyzer].origin = "default"
  /\ \E k \in 2..Len(batch_analyzers) :
        /\ batch_analyzers[k].global # batch_analyzers[1].global
        /\ instances[batch_analyzers[k].global].model # batch_analyzers[k].model
        /\ instances[batch_analyzers[k].global].openai_client
              # batch_analyzers[k].openai_client

====
